---- MODULE Spec2Model ----
(***************************************************************************)
(* Model of the users service start-up (cmd/users/main.go: main,           *)
(* newService, createAdmin, createAdminPolicy) and of the Kratos OAuth2    *)
(* provider (pkg/oauth2/kratos/provider.go: UserDetails, Validate,         *)
(* Refresh, decodeError).                                                  *)
(*                                                                         *)
(* Each replica of the service is one execution of main.  The account      *)
(* repository and the authorization service are shared by the replicas;    *)
(* every call to them is one atomic step, so replicas interleave at the    *)
(* granularity of collaborator calls.                                      *)
(***************************************************************************)
EXTENDS Naturals, Sequences, FiniteSets, TLC

\* Number of executions of main against one deployment.
NumReplicas == 2

Replicas == 1..NumReplicas

\* config.AdminEmail / config.AdminPassword defaults.
AdminEmail == "admin@example.com"

AdminPassword == "12345678"

\* Identifiers the account repository can assign to a saved account.
RepoIds == {"id1", "id2"}

VARIABLES
    \* ---- deployment state shared by the replicas
    repo,          \* account repository: identity -> stored record
    policies,      \* subjects holding (administrator, platform) in the auth service
    \* ---- per replica: one execution of main
    pc,            \* position in main / newService
    clientID,      \* value returned by createAdmin (newService's clientID)
    bootErr,       \* error returned by newService ("nil" when none)
    exitCode,      \* main's exitCode
    started,       \* httpSrv.Start was invoked in this process
    calls,         \* collaborator calls of this run, in order: <<name, outcome>>
    pred,          \* replicas whose bootstrap had ended when this run began
    \* ---- one provider operation (an HTTP handler calling the provider)
    op,            \* "none" | "UserDetails" | "Validate" | "Refresh"
    ppc,           \* "idle" | "exchange" | "userinfo" | "introspect" | "post" | "returned"
    ctx,           \* the caller's context: "live" | "cancelled"
    arg,           \* the operation's argument (code or token)
    exch,          \* outcome of the code exchange seen by UserDetails
    http,          \* last HTTP answer consumed by the operation
    reqs,          \* outbound requests issued by the operation, in order
    result,        \* what the operation returned
    payload,       \* form body of the request Refresh built
    \* ---- the provider object shared by the handlers
    oauthConfig,   \* the mgoauth2.Config main handed to NewProvider
    cfg            \* the provider's config.config (ClientID, ClientSecret)

bootVars == <<repo, policies, pc, clientID, bootErr, exitCode, started, calls, pred>>

provVars == <<op, ppc, ctx, arg, exch, http, reqs, result, payload, oauthConfig, cfg>>

cfgVars == <<oauthConfig, cfg>>

vars == <<repo, policies, pc, clientID, bootErr, exitCode, started, calls, pred,
          op, ppc, ctx, arg, exch, http, reqs, result, payload, oauthConfig, cfg>>

----------------------------------------------------------------------------
(* Admin bootstrap: cmd/users/main.go                                      *)

\* The mgclients.Client literal built by createAdmin.  ID is not among the
\* fields of the literal, so it holds Go's zero value, the empty string.
client ==
    [ID |-> "", Name |-> "admin-client", Identity |-> AdminEmail,
     Secret |-> AdminPassword, Role |-> "admin", Status |-> "enabled"]

\* A bootstrap run has ended: newService was called and has returned (a
\* process that exited during set-up never ran the bootstrap).
Ended(p) ==
    /\ pc[p] \in {"newServiceRet", "config", "start", "serving", "exited"}
    /\ calls[p] # <<>>

\* newService returned without error (the machine's DONE state).
Done(p) == Ended(p) /\ bootErr[p] = "nil"

\* newService returned an error (the machine's FATAL state).
Fatal(p) == Ended(p) /\ bootErr[p] # "nil"

Log(p, name, outcome) == calls' = [calls EXCEPT ![p] = Append(@, <<name, outcome>>)]

\* main up to the call of newService: configuration, logger, database,
\* tracer and auth client set-up, each of which ends the process with
\* exitCode 1 when it fails.
MainSetup(p) ==
    /\ pc[p] = "init"
    /\ pred' = [pred EXCEPT ![p] = {q \in Replicas : Ended(q)}]
    /\ \/ /\ pc' = [pc EXCEPT ![p] = "RetrieveByIdentity"]
          /\ UNCHANGED exitCode
       \/ /\ pc' = [pc EXCEPT ![p] = "exited"]
          /\ exitCode' = [exitCode EXCEPT ![p] = 1]
    /\ UNCHANGED <<repo, policies, clientID, bootErr, started, calls>>
    /\ UNCHANGED provVars

\* The repository's RetrieveByIdentity: the record stored under the identity,
\* if there is one.
RepoHas(identity) == identity \in DOMAIN repo

RepoGet(identity) == repo[identity]

\* The authorization service: Authorize answers whether the subject holds
\* the administrator relation on the platform; AddPolicy, when it reports
\* added, has stored the tuple.
AuthHolds(subject) == subject \in policies

AuthAdd(subject) == policies \cup {subject}

\* The repository's Save: stores the record under its identity with an
\* identifier of the repository's choosing, or fails (always possible; certain
\* when the identity is already taken).
RepoSave(record, id) == (record.Identity :> [record EXCEPT !.ID = id]) @@ repo

RepoCanSave(record) == ~RepoHas(record.Identity)

\* Identifiers not yet given to a stored account.
FreshIds == RepoIds \ {repo[i].ID : i \in DOMAIN repo}

\* A createAdmin that never creates: it goes on to the authorization check
\* whatever the lookup returned.
createAdminAfterLookup_neverCreate(outcome) == "Authorize"

\* createAdmin after the lookup: `if c, err := ...; err == nil { return c.ID, nil }`,
\* otherwise execution continues with Save.
createAdminAfterLookup(outcome) == IF outcome = "found" THEN "Authorize" ELSE "Save"

\* createAdmin, CHECK: crepo.RetrieveByIdentity(ctx, client.Credentials.Identity).
\* err == nil returns the stored record's ID; any error falls through to Save.
RetrieveByIdentity(p) ==
    /\ pc[p] = "RetrieveByIdentity"
    /\ \/ /\ RepoHas(client.Identity)
          /\ clientID' = [clientID EXCEPT ![p] = RepoGet(client.Identity).ID]
          /\ pc' = [pc EXCEPT ![p] = createAdminAfterLookup("found")]
          /\ Log(p, "RetrieveByIdentity", "found")
       \/ /\ ~RepoHas(client.Identity)
          /\ pc' = [pc EXCEPT ![p] = createAdminAfterLookup("notfound")]
          /\ Log(p, "RetrieveByIdentity", "notfound")
          /\ UNCHANGED clientID
       \/ /\ pc' = [pc EXCEPT ![p] = createAdminAfterLookup("error")]
          /\ Log(p, "RetrieveByIdentity", "error")
          /\ UNCHANGED clientID
    /\ UNCHANGED <<repo, policies, bootErr, exitCode, started, pred>>
    /\ UNCHANGED provVars

\* createAdmin, CREATE first half: crepo.Save(ctx, client).  The returned
\* record is discarded; the local client is passed by value and is unchanged.
Save(p) ==
    /\ pc[p] = "Save"
    /\ \/ /\ RepoCanSave(client)
          /\ \E id \in FreshIds : repo' = RepoSave(client, id)
          /\ pc' = [pc EXCEPT ![p] = "IssueToken"]
          /\ Log(p, "Save", "ok")
          /\ UNCHANGED bootErr
       \/ /\ pc' = [pc EXCEPT ![p] = "newServiceRet"]
          /\ bootErr' = [bootErr EXCEPT ![p] = "ErrSave"]
          /\ Log(p, "Save", "error")
          /\ UNCHANGED repo
    /\ UNCHANGED <<policies, clientID, exitCode, started, pred>>
    /\ UNCHANGED provVars

\* What createAdmin returns after a successful creation: client.ID of the
\* local literal.
createAdminCreatedID == client.ID

\* A createAdmin that calls IssueToken again when it fails.
createAdminAfterIssueToken_retry(outcome) ==
    IF outcome = "error" THEN "IssueToken" ELSE "Authorize"

\* A createAdmin that goes on to the authorization check although IssueToken failed.
createAdminAfterIssueToken_ignoreErr(outcome) == "Authorize"

\* createAdmin after IssueToken: `if _, err := ...; err != nil { return "", err }`.
createAdminAfterIssueToken(outcome) ==
    IF outcome = "error" THEN "newServiceRet" ELSE "Authorize"

\* createAdmin, CREATE second half: svc.IssueToken(ctx, AdminEmail, AdminPassword, "").
IssueToken(p) ==
    /\ pc[p] = "IssueToken"
    /\ \/ /\ clientID' = [clientID EXCEPT ![p] = createAdminCreatedID]
          /\ pc' = [pc EXCEPT ![p] = createAdminAfterIssueToken("ok")]
          /\ Log(p, "IssueToken", "ok")
          /\ UNCHANGED bootErr
       \/ /\ pc' = [pc EXCEPT ![p] = createAdminAfterIssueToken("error")]
          /\ bootErr' = [bootErr EXCEPT ![p] = "ErrIssueToken"]
          /\ Log(p, "IssueToken", "error")
          /\ UNCHANGED clientID
    /\ UNCHANGED <<repo, policies, exitCode, started, pred>>
    /\ UNCHANGED provVars

\* createAdminPolicy, AUTHORIZED_CHECK: authClient.Authorize with
\* Subject = clientID.  err != nil || !res.Authorized leads to AddPolicy.
Authorize(p) ==
    /\ pc[p] = "Authorize"
    /\ \/ /\ AuthHolds(clientID[p])
          /\ pc' = [pc EXCEPT ![p] = "newServiceRet"]
          /\ Log(p, "Authorize", "true")
       \/ /\ ~AuthHolds(clientID[p])
          /\ pc' = [pc EXCEPT ![p] = "AddPolicy"]
          /\ Log(p, "Authorize", "false")
       \/ /\ pc' = [pc EXCEPT ![p] = "AddPolicy"]
          /\ Log(p, "Authorize", "error")
    /\ UNCHANGED <<repo, policies, clientID, bootErr, exitCode, started, pred>>
    /\ UNCHANGED provVars

\* A createAdminPolicy that does not look at addPolicyRes.Added.
addPolicyErr_ignoreAdded(outcome) == IF outcome = "error" THEN "ErrAddPolicy" ELSE "nil"

\* createAdminPolicy after AddPolicy: the call's error, else
\* svcerr.ErrAuthorization when !addPolicyRes.Added, else nil.
addPolicyErr(outcome) ==
    IF outcome = "error" THEN "ErrAddPolicy"
    ELSE IF outcome = "notadded" THEN "ErrAuthorization"
    ELSE "nil"

\* createAdminPolicy, GRANT: authClient.AddPolicy with Subject = clientID.
AddPolicy(p) ==
    /\ pc[p] = "AddPolicy"
    /\ \/ /\ policies' = AuthAdd(clientID[p])
          /\ Log(p, "AddPolicy", "added")
          /\ bootErr' = [bootErr EXCEPT ![p] = addPolicyErr("added")]
       \/ /\ bootErr' = [bootErr EXCEPT ![p] = addPolicyErr("notadded")]
          /\ Log(p, "AddPolicy", "notadded")
          /\ UNCHANGED policies
       \/ /\ bootErr' = [bootErr EXCEPT ![p] = addPolicyErr("error")]
          /\ Log(p, "AddPolicy", "error")
          /\ UNCHANGED policies
    /\ pc' = [pc EXCEPT ![p] = "newServiceRet"]
    /\ UNCHANGED <<repo, clientID, exitCode, started, pred>>
    /\ UNCHANGED provVars

\* A main that goes on to build and start the server whatever newService returned.
mainAfterNewService_ignoreErr(err) == "config"

\* main after newService: `if err != nil { exitCode = 1; return }`.
mainAfterNewService(err) == IF err # "nil" THEN "exited" ELSE "config"

MainNewServiceReturn(p) ==
    /\ pc[p] = "newServiceRet"
    /\ pc' = [pc EXCEPT ![p] = mainAfterNewService(bootErr[p])]
    /\ exitCode' = [exitCode EXCEPT ![p] = IF bootErr[p] # "nil" THEN 1 ELSE @]
    /\ UNCHANGED <<repo, policies, clientID, bootErr, started, calls, pred>>
    /\ UNCHANGED provVars

\* main: HTTP server and OAuth configuration are parsed; a failure ends the
\* process with exitCode 1 before the server is built.
MainConfig(p) ==
    /\ pc[p] = "config"
    /\ \/ /\ pc' = [pc EXCEPT ![p] = "start"]
          /\ UNCHANGED exitCode
       \/ /\ pc' = [pc EXCEPT ![p] = "exited"]
          /\ exitCode' = [exitCode EXCEPT ![p] = 1]
    /\ UNCHANGED <<repo, policies, clientID, bootErr, started, calls, pred>>
    /\ UNCHANGED provVars

\* main: g.Go(func() error { return httpSrv.Start() }).
HTTPStart(p) ==
    /\ pc[p] = "start"
    /\ started' = [started EXCEPT ![p] = TRUE]
    /\ pc' = [pc EXCEPT ![p] = "serving"]
    /\ UNCHANGED <<repo, policies, clientID, bootErr, exitCode, calls, pred>>
    /\ UNCHANGED provVars

\* main: g.Wait() returns (stop signal or server error) and main returns.
MainWait(p) ==
    /\ pc[p] = "serving"
    /\ pc' = [pc EXCEPT ![p] = "exited"]
    /\ UNCHANGED <<repo, policies, clientID, bootErr, exitCode, started, calls, pred>>
    /\ UNCHANGED provVars

----------------------------------------------------------------------------
(* Kratos OAuth2 provider: pkg/oauth2/kratos/provider.go                   *)

providerName == "kratos"

\* Authorization codes and tokens handed to the provider by its callers.
Codes == {"code1", "code2"}

Tokens == {"tok1", "tok2"}

\* Zero values: oauth2.Token{} and mfclients.Client{}.
EmptyToken == [AccessToken |-> "", RefreshToken |-> ""]

EmptyClient == [ID |-> "", Name |-> "", Identity |-> "", Metadata |-> "", Status |-> ""]

NoExchange == [err |-> "pending", token |-> EmptyToken]

NoAnswer == [kind |-> "none"]

NoResult == [err |-> "pending", client |-> EmptyClient, token |-> EmptyToken, detail |-> <<>>]

Return(err) == [err |-> err, client |-> EmptyClient, token |-> EmptyToken, detail |-> <<>>]

\* Client credentials an operator can configure (MG_KRATOS_ prefixed
\* environment; either may be left empty).
OAuthConfigs ==
    {[ClientID |-> i, ClientSecret |-> x] : i \in {"", "client"}, x \in {"", "secret"}}

\* No provider has been built yet.
NoProvider == [built |-> FALSE, ClientID |-> "", ClientSecret |-> ""]

\* NewProvider(cfg, baseURL, ...): copies ClientID and ClientSecret of the
\* configuration into the provider's oauth2.Config.
NewProvider ==
    /\ ~cfg.built
    /\ \E c \in OAuthConfigs :
        /\ oauthConfig' = c
        /\ cfg' = [built |-> TRUE, ClientID |-> c.ClientID, ClientSecret |-> c.ClientSecret]
    /\ UNCHANGED <<op, ppc, ctx, arg, exch, http, reqs, result, payload>>
    /\ UNCHANGED bootVars

\* An enabled test satisfied by either credential alone.
IsEnabled_either(c) == c.ClientID # "" \/ c.ClientSecret # ""

\* `cfg.config.ClientID != "" && cfg.config.ClientSecret != ""`.
IsEnabled(c) == c.ClientID # "" /\ c.ClientSecret # ""

\* A caller invokes IsEnabled(); it returns at once, its value in detail.
IsEnabledCall ==
    /\ cfg.built
    /\ ppc \in {"idle", "returned"}
    /\ op' = "IsEnabled"
    /\ ppc' = "returned"
    /\ ctx' = "live"
    /\ arg' = ""
    /\ exch' = NoExchange
    /\ http' = NoAnswer
    /\ reqs' = <<>>
    /\ payload' = <<>>
    /\ result' = [Return("nil") EXCEPT !.detail = <<IsEnabled(cfg)>>]
    /\ UNCHANGED cfgVars
    /\ UNCHANGED bootVars

\* What cfg.config.Exchange(ctx, code) can return.  The call is bound to ctx:
\* once ctx is cancelled it returns the context's error.  A returned token
\* always has an access token (the oauth2 package rejects an answer without).
ExchangeOutcomes ==
    IF ctx = "cancelled"
    THEN {[err |-> "ErrContext", token |-> EmptyToken]}
    ELSE {[err |-> "ErrExchange", token |-> EmptyToken]} \cup
         {[err |-> "nil", token |-> [AccessToken |-> a, RefreshToken |-> r]] :
             a \in {"at1"}, r \in {"", "rt1"}}

\* Bodies the identity endpoint can answer with: unreadable (io.ReadAll
\* fails), not JSON, or a JSON object (an absent field reads as "").
UserInfoBodies ==
    {[shape |-> "unreadable"], [shape |-> "notjson"]} \cup
    {[shape |-> "json", sub |-> s, preferred_username |-> n, email |-> e] :
        s \in {"", "u1"}, n \in {"", "alice"}, e \in {"", "alice@example.com"}}

\* Outcomes of http.Get on the identity endpoint.  The request carries no
\* context, so the outcome does not depend on ctx.
UserInfoAnswers ==
    {[kind |-> "transport"]} \cup
    {[kind |-> "response", status |-> st, body |-> b] :
        st \in {200, 401}, b \in UserInfoBodies}

\* json.Unmarshal(data, &user) with tags sub, preferred_username, email.
UnmarshalUser(body) ==
    [ID |-> body.sub, Name |-> body.preferred_username, Email |-> body.email]

\* A refresh-token test that looks at the access token instead.
RefreshTokenMissing_accessToken(token) == token.AccessToken = ""

\* `token.RefreshToken == ""`.
RefreshTokenMissing(token) == token.RefreshToken = ""

\* An identity test that forgets the display name.
UserFieldsMissing_noName(user) == user.ID = "" \/ user.Email = ""

\* `user.ID == "" || user.Name == "" || user.Email == ""`.
UserFieldsMissing(user) == user.ID = "" \/ user.Name = "" \/ user.Email = ""

\* A UserDetails that hands back the exchanged token with its error.
UserDetailsIdentity_leakToken(token, h) ==
    IF h.kind = "transport" THEN [Return("ErrTransport") EXCEPT !.token = token]
    ELSE IF h.status # 200 THEN [Return("ErrAuthentication") EXCEPT !.token = token]
    ELSE IF h.body.shape = "unreadable" THEN [Return("ErrRead") EXCEPT !.token = token]
    ELSE IF h.body.shape = "notjson" THEN [Return("ErrUnmarshal") EXCEPT !.token = token]
    ELSE LET user == UnmarshalUser(h.body) IN
         IF UserFieldsMissing(user) THEN [Return("ErrAuthentication") EXCEPT !.token = token]
         ELSE [err |-> "nil",
               client |-> [ID |-> user.ID, Name |-> user.Name, Identity |-> user.Email,
                           Metadata |-> providerName, Status |-> "enabled"],
               token |-> token,
               detail |-> <<>>]

\* UserDetails from the answer of the identity endpoint to its return.
UserDetailsIdentity(token, h) ==
    IF h.kind = "transport" THEN Return("ErrTransport")
    ELSE IF h.status # 200 THEN Return("ErrAuthentication")
    ELSE IF h.body.shape = "unreadable" THEN Return("ErrRead")
    ELSE IF h.body.shape = "notjson" THEN Return("ErrUnmarshal")
    ELSE LET user == UnmarshalUser(h.body) IN
         IF UserFieldsMissing(user) THEN Return("ErrAuthentication")
         ELSE [err |-> "nil",
               client |-> [ID |-> user.ID, Name |-> user.Name, Identity |-> user.Email,
                           Metadata |-> providerName, Status |-> "enabled"],
               token |-> token,
               detail |-> <<>>]

\* A caller invokes UserDetails(ctx, code); the code exchange is in flight.
UserDetailsStart ==
    /\ cfg.built
    /\ ppc \in {"idle", "returned"}
    /\ \E code \in Codes : arg' = code
    /\ op' = "UserDetails"
    /\ ppc' = "exchange"
    /\ ctx' = "live"
    /\ exch' = NoExchange
    /\ http' = NoAnswer
    /\ reqs' = <<"token">>
    /\ result' = NoResult
    /\ UNCHANGED cfgVars
    /\ payload' = <<>>
    /\ UNCHANGED bootVars

\* The caller cancels its context (or its deadline passes) while a request
\* of the operation is in flight.
CancelCtx ==
    /\ ppc \in {"exchange", "userinfo", "introspect", "post"}
    /\ ctx = "live"
    /\ ctx' = "cancelled"
    /\ UNCHANGED <<op, ppc, arg, exch, http, reqs, result>>
    /\ UNCHANGED cfgVars
    /\ UNCHANGED payload
    /\ UNCHANGED bootVars

\* UserDetails: Exchange returns; an error or an empty refresh token ends the
\* operation, otherwise the identity request is sent.
UserDetailsExchange ==
    /\ op = "UserDetails" /\ ppc = "exchange"
    /\ \E ex \in ExchangeOutcomes :
        /\ exch' = ex
        /\ \/ /\ ex.err # "nil"
              /\ result' = Return(ex.err)
              /\ ppc' = "returned"
              /\ UNCHANGED reqs
           \/ /\ ex.err = "nil" /\ RefreshTokenMissing(ex.token)
              /\ result' = Return("ErrAuthentication")
              /\ ppc' = "returned"
              /\ UNCHANGED reqs
           \/ /\ ex.err = "nil" /\ ~RefreshTokenMissing(ex.token)
              /\ ppc' = "userinfo"
              /\ reqs' = Append(reqs, "userinfo")
              /\ UNCHANGED result
    /\ UNCHANGED <<op, ctx, arg, http>>
    /\ UNCHANGED cfgVars
    /\ UNCHANGED payload
    /\ UNCHANGED bootVars

\* UserDetails: http.Get on the identity endpoint returns and the operation
\* runs to its return.
UserDetailsUserInfo ==
    /\ op = "UserDetails" /\ ppc = "userinfo"
    /\ \E h \in UserInfoAnswers :
        /\ http' = h
        /\ result' = UserDetailsIdentity(exch.token, h)
    /\ ppc' = "returned"
    /\ UNCHANGED <<op, ctx, arg, exch, reqs>>
    /\ UNCHANGED cfgVars
    /\ UNCHANGED payload
    /\ UNCHANGED bootVars

\* Bodies the introspection endpoint can send: nothing, something that is
\* not JSON, an introspection result, or a JSON object with or without an
\* `error` member, whose `reason` is optional (ory.GenericError.Reason is a
\* pointer, nil when the member is absent).
IntrospectBodies(st) ==
    IF st = 200
    THEN {[shape |-> "empty"], [shape |-> "notjson"]} \cup
         {[shape |-> "introspection", active |-> a] : a \in BOOLEAN}
    ELSE {[shape |-> "empty"], [shape |-> "notjson"],
          [shape |-> "json", error |-> FALSE, message |-> "", hasReason |-> FALSE, reason |-> ""],
          [shape |-> "json", error |-> TRUE, message |-> "invalid_token",
           hasReason |-> FALSE, reason |-> ""],
          [shape |-> "json", error |-> TRUE, message |-> "invalid_token",
           hasReason |-> TRUE, reason |-> "expired"]}

\* HTTP outcomes of the introspection request.  The request is bound to ctx:
\* once ctx is cancelled the transport gives up (no response) or the body is
\* cut short.
IntrospectAnswers ==
    IF ctx = "cancelled"
    THEN {[kind |-> "transport"]} \cup
         {[kind |-> "response", status |-> st, body |-> [shape |-> "empty"]] : st \in {200, 401}}
    ELSE {[kind |-> "transport"]} \cup
         UNION {{[kind |-> "response", status |-> st, body |-> b] :
                    b \in IntrospectBodies(st)} : st \in {200, 401}}

\* cfg.client.OAuth2API.IntrospectOAuth2Token(ctx).Token(token).Execute():
\* (introspectedToken, resp, err).  No response on a transport failure; an
\* error for a non-success status or a body that does not decode.
Execute(h) ==
    IF h.kind = "transport" THEN [err |-> TRUE, resp |-> [nil |-> TRUE], Active |-> FALSE]
    ELSE IF h.status = 200 /\ h.body.shape = "introspection"
         THEN [err |-> FALSE, resp |-> [nil |-> FALSE, body |-> h.body], Active |-> h.body.active]
         ELSE [err |-> TRUE, resp |-> [nil |-> FALSE, body |-> h.body], Active |-> FALSE]

\* decodeError(response).  response.Body of a nil response and
\* *content.Error.Reason of an absent reason are nil dereferences: the
\* goroutine panics and nothing is returned.
decodeError(response) ==
    IF response.nil THEN Return("panic")
    ELSE IF response.body.shape = "unreadable" THEN Return("ErrReadBody")
    ELSE IF response.body.shape \in {"empty", "notjson"} THEN Return("ErrUnmarshalBody")
    ELSE IF ~response.body.error \/ ~response.body.hasReason THEN Return("panic")
    ELSE [Return("ErrDiagnostic") EXCEPT
             !.detail = <<response.body.message, response.body.reason>>]

\* Validate from the return of Execute to its own return.
ValidateResult(e) ==
    IF e.err THEN decodeError(e.resp)
    ELSE IF ~e.Active THEN Return("ErrAuthentication")
    ELSE Return("nil")

\* A caller invokes Validate(ctx, token); the introspection request is in flight.
ValidateStart ==
    /\ cfg.built
    /\ ppc \in {"idle", "returned"}
    /\ \E t \in Tokens : arg' = t
    /\ op' = "Validate"
    /\ ppc' = "introspect"
    /\ ctx' = "live"
    /\ exch' = NoExchange
    /\ http' = NoAnswer
    /\ reqs' = <<"introspect">>
    /\ result' = NoResult
    /\ UNCHANGED cfgVars
    /\ payload' = <<>>
    /\ UNCHANGED bootVars

\* Validate: Execute returns and the operation runs to its return.
ValidateIntrospect ==
    /\ op = "Validate" /\ ppc = "introspect"
    /\ \E h \in IntrospectAnswers :
        /\ http' = h
        /\ result' = ValidateResult(Execute(h))
    /\ ppc' = "returned"
    /\ UNCHANGED <<op, ctx, arg, exch, reqs>>
    /\ UNCHANGED cfgVars
    /\ UNCHANGED payload
    /\ UNCHANGED bootVars

\* Strings that are built or parsed character by character are sequences of
\* symbols: a symbol is one character, or a run of ordinary letters written
\* as one atom ("mail", "grant_type").

\* var scopes: email, profile, offline_access (first letter apart).
scopes == << <<"e", "mail">>, <<"p", "rofile">>, <<"o", "ffline_access">> >>

\* Refresh tokens callers can hand to Refresh, among them strings with '&',
\* '=' and '%'.
RefreshTokens ==
    { <<"rt1">>,
      <<"a", "=", "b">>,
      <<"rt1", "&", "scope", "=", "admin">>,
      <<"a", "%", "2", "6", "b">> }

Digits == {"0", "1", "2", "3", "4", "5", "6", "7", "8", "9"}

HexDigits == Digits \cup {"a", "b", "c", "d", "e", "f", "A", "B", "C", "D", "E", "F"}

RECURSIVE Join(_, _)
\* strings.Join(elems, sep).
Join(elems, sep) ==
    IF elems = <<>> THEN <<>>
    ELSE IF Len(elems) = 1 THEN elems[1]
    ELSE elems[1] \o sep \o Join(Tail(elems), sep)

RECURSIVE DropWhile(_, _)
DropWhile(str, set) ==
    IF str # <<>> /\ Head(str) \in set THEN DropWhile(Tail(str), set) ELSE str

\* fmt: what follows a '%' up to the verb: flags, width, precision.
SkipDirective(str) ==
    LET w == DropWhile(DropWhile(str, {"#", "0", "+", "-", " "}), Digits)
    IN IF w # <<>> /\ Head(w) = "." THEN DropWhile(Tail(w), Digits) ELSE w

RECURSIVE Sprintf(_)
\* fmt.Sprintf(format) with no operands: text is copied; "%%" gives "%"; any
\* other directive has no operand and prints as "%!v(MISSING)"; a '%' with
\* no verb prints as "%!(NOVERB)".
Sprintf(format) ==
    IF format = <<>> THEN <<>>
    ELSE IF Head(format) # "%" THEN <<Head(format)>> \o Sprintf(Tail(format))
    ELSE LET r == SkipDirective(Tail(format)) IN
         IF r = <<>> THEN <<"%", "!", "(NOVERB)">>
         ELSE IF Head(r) = "%" THEN <<"%">> \o Sprintf(Tail(r))
         ELSE <<"%", "!", Head(r), "(MISSING)">> \o Sprintf(Tail(r))

\* The string Refresh hands to strings.NewReader: the concatenation is the
\* format argument of fmt.Sprintf.
RefreshPayload(token) ==
    Sprintf(<<"grant_type", "=", "refresh_token", "&", "refresh_token", "=">>
            \o token
            \o <<"&", "scope", "=">>
            \o Join(scopes, <<"%", "2", "0">>))

RECURSIVE Split(_, _, _)
\* strings.Split(str, sep) for a one-symbol separator; cur is the piece read so far.
Split(str, sep, cur) ==
    IF str = <<>> THEN <<cur>>
    ELSE IF Head(str) = sep THEN <<cur>> \o Split(Tail(str), sep, <<>>)
    ELSE Split(Tail(str), sep, Append(cur, Head(str)))

\* strings.Cut(str, sep): the text before and after the first sep.
Cut(str, sep) ==
    LET at == {i \in 1..Len(str) : str[i] = sep}
    IN IF at = {} THEN [before |-> str, after |-> <<>>]
       ELSE LET i == CHOOSE k \in at : \A l \in at : k <= l
            IN [before |-> SubSeq(str, 1, i - 1), after |-> SubSeq(str, i + 1, Len(str))]

\* The byte a two-digit escape stands for; bytes that no modelled string
\* holds are all read as "?".
HexByte(a, b) ==
    IF <<a, b>> = <<"2", "0">> THEN " "
    ELSE IF <<a, b>> = <<"2", "5">> THEN "%"
    ELSE IF <<a, b>> = <<"2", "6">> THEN "&"
    ELSE IF <<a, b>> \in {<<"3", "D">>, <<"3", "d">>} THEN "="
    ELSE "?"

\* url.QueryUnescape fails when a '%' is not followed by two hex digits.
EscapesValid(str) ==
    \A i \in 1..Len(str) :
        str[i] = "%" =>
            /\ i + 2 <= Len(str)
            /\ str[i + 1] \in HexDigits
            /\ str[i + 2] \in HexDigits

RECURSIVE QueryUnescape(_)
\* url.QueryUnescape on a string whose escapes are valid: "%XX" is the byte,
\* '+' is a space.
QueryUnescape(str) ==
    IF str = <<>> THEN <<>>
    ELSE IF Head(str) = "%" THEN <<HexByte(str[2], str[3])>> \o QueryUnescape(SubSeq(str, 4, Len(str)))
    ELSE IF Head(str) = "+" THEN <<" ">> \o QueryUnescape(Tail(str))
    ELSE <<Head(str)>> \o QueryUnescape(Tail(str))

\* url.ParseQuery as a form-decoding server applies it to the body: the
\* fields in order; an empty piece, a piece holding ';' and a piece whose
\* key or value does not unescape give no field.
ParseQuery(query) ==
    LET pieces == Split(query, "&", <<>>)
        Field(piece) ==
            LET kv == Cut(piece, "=")
            IN IF piece = <<>> \/ (\E i \in 1..Len(piece) : piece[i] = ";")
                  \/ ~EscapesValid(kv.before) \/ ~EscapesValid(kv.after)
               THEN <<>>
               ELSE << <<QueryUnescape(kv.before), QueryUnescape(kv.after)>> >>
        F[i \in 0..Len(pieces)] == IF i = 0 THEN <<>> ELSE F[i - 1] \o Field(pieces[i])
    IN F[Len(pieces)]

\* Bodies the token endpoint can answer a refresh with: unreadable, not
\* JSON, or a JSON object (an absent member reads as "").
RefreshBodies ==
    {[shape |-> "unreadable"], [shape |-> "notjson"]} \cup
    {[shape |-> "json", access_token |-> a, refresh_token |-> r] :
        a \in {"", "at2"}, r \in {"", "rt2"}}

\* Outcomes of client.Do(req).  The request is built by http.NewRequest and
\* carries no context, so the outcome does not depend on ctx; a transport
\* failure includes the client's own one-minute timeout.
RefreshAnswers ==
    {[kind |-> "transport"]} \cup
    {[kind |-> "response", status |-> st, body |-> b] :
        st \in {200, 401}, b \in RefreshBodies}

\* json.Unmarshal(body, &tokenData) with oauth2.Token's tags.
UnmarshalToken(body) ==
    [AccessToken |-> body.access_token, RefreshToken |-> body.refresh_token]

\* Refresh from the return of client.Do to its own return.
RefreshResult(h) ==
    IF h.kind = "transport" THEN Return("ErrTransport")
    ELSE IF h.status # 200 THEN Return("ErrAuthentication")
    ELSE IF h.body.shape = "unreadable" THEN Return("ErrRead")
    ELSE IF h.body.shape = "notjson" THEN Return("ErrUnmarshal")
    ELSE [Return("nil") EXCEPT !.token = UnmarshalToken(h.body)]

\* A caller invokes Refresh(ctx, token).  http.NewRequest fails when the
\* configured token URL does not parse, and nothing is sent; otherwise the
\* POST is in flight.
RefreshStart ==
    /\ cfg.built
    /\ ppc \in {"idle", "returned"}
    /\ \E t \in RefreshTokens :
        /\ arg' = t
        /\ payload' = RefreshPayload(t)
    /\ op' = "Refresh"
    /\ ctx' = "live"
    /\ exch' = NoExchange
    /\ http' = NoAnswer
    /\ \/ /\ ppc' = "post"
          /\ reqs' = <<"refresh">>
          /\ result' = NoResult
       \/ /\ ppc' = "returned"
          /\ reqs' = <<>>
          /\ result' = Return("ErrNewRequest")
    /\ UNCHANGED cfgVars
    /\ UNCHANGED bootVars

\* Refresh: client.Do returns and the operation runs to its return.
RefreshPost ==
    /\ op = "Refresh" /\ ppc = "post"
    /\ \E h \in RefreshAnswers :
        /\ http' = h
        /\ result' = RefreshResult(h)
    /\ ppc' = "returned"
    /\ UNCHANGED <<op, ctx, arg, exch, reqs>>
    /\ UNCHANGED cfgVars
    /\ UNCHANGED payload
    /\ UNCHANGED bootVars

InitBoot ==
    /\ repo = <<>>
    /\ policies = {}
    /\ pc = [p \in Replicas |-> "init"]
    /\ clientID = [p \in Replicas |-> ""]
    /\ bootErr = [p \in Replicas |-> "nil"]
    /\ exitCode = [p \in Replicas |-> 0]
    /\ started = [p \in Replicas |-> FALSE]
    /\ calls = [p \in Replicas |-> <<>>]
    /\ pred = [p \in Replicas |-> {}]

InitProvider ==
    /\ op = "none"
    /\ ppc = "idle"
    /\ ctx = "live"
    /\ arg = ""
    /\ exch = NoExchange
    /\ http = NoAnswer
    /\ reqs = <<>>
    /\ result = NoResult
    /\ payload = <<>>
    /\ oauthConfig = [ClientID |-> "", ClientSecret |-> ""]
    /\ cfg = NoProvider

Init == InitBoot /\ InitProvider

NextBoot ==
    \E p \in Replicas :
        \/ MainSetup(p)
        \/ RetrieveByIdentity(p)
        \/ Save(p)
        \/ IssueToken(p)
        \/ Authorize(p)
        \/ AddPolicy(p)
        \/ MainNewServiceReturn(p)
        \/ MainConfig(p)
        \/ HTTPStart(p)
        \/ MainWait(p)

SpecBoot == Init /\ [][NextBoot]_vars

NextProvider ==
    \/ NewProvider
    \/ IsEnabledCall
    \/ UserDetailsStart
    \/ UserDetailsExchange
    \/ UserDetailsUserInfo
    \/ ValidateStart
    \/ ValidateIntrospect
    \/ RefreshStart
    \/ RefreshPost
    \/ CancelCtx

SpecProvider == Init /\ [][NextProvider]_vars

\* The bootstrap and the provider share no state.  NextEither runs one of
\* them from the initial state: once a process has begun main the provider
\* stays untouched, and once the provider is built no process begins.
NextEither ==
    \/ (op = "none" /\ ~cfg.built /\ NextBoot)
    \/ ((\A p \in Replicas : pc[p] = "init") /\ NextProvider)

SpecEither == Init /\ [][NextEither]_vars

Next == NextBoot \/ NextProvider

Spec == Init /\ [][Next]_vars

----------------------------------------------------------------------------
(* Properties of the admin bootstrap                                       *)

Outcomes(p) == {calls[p][i] : i \in 1..Len(calls[p])}

\* No collaborator call of the run returned an error (a not-found lookup and
\* an Authorize answer of false are answers, not failures).
NoCallFailed(p) ==
    \A c \in Outcomes(p) : c[2] \notin {"error", "notadded"}

\* The run created the admin account.
Created(p) == <<"Save", "ok">> \in Outcomes(p)

\* The first boot of the spec's scenario: miss, create, issue, not yet
\* authorized, grant added.
FirstBootCalls ==
    << <<"RetrieveByIdentity", "notfound">>, <<"Save", "ok">>, <<"IssueToken", "ok">>,
       <<"Authorize", "false">>, <<"AddPolicy", "added">> >>

\* A boot against a bootstrapped deployment: the two reads and nothing else.
SecondBootCalls ==
    << <<"RetrieveByIdentity", "found">>, <<"Authorize", "true">> >>

\* C1: two consecutive bootstrap runs, the first creating the admin account
\* and every collaborator call succeeding, end with the same admin account id:
\* the id createAdmin returns after creating the account equals the id it
\* returns when the next run finds the account by the administrator email.
C1_SameAdminIdAcrossRuns ==
    \A p \in Replicas : \A q \in Replicas :
        ( /\ p \in pred[q]
          /\ Done(p) /\ Created(p) /\ NoCallFailed(p)
          /\ Done(q) /\ NoCallFailed(q) )
        => clientID[p] = clientID[q]

\* C2: a run that starts after a run which went through the whole first boot
\* (account created, credentials issued, AddPolicy added) performs exactly
\* RetrieveByIdentity and Authorize, with Authorize answering true, and no
\* Save, IssueToken or AddPolicy.
C2_SecondBootOnlyReads ==
    \A p \in Replicas : \A q \in Replicas :
        ( /\ p \in pred[q]
          /\ calls[p] = FirstBootCalls
          /\ Ended(q)
          /\ \A c \in Outcomes(q) : c[2] # "error" )
        => calls[q] = SecondBootCalls

\* C3: whenever a bootstrap run reaches DONE, the repository holds the account
\* of the administrator email and the authorization service holds the
\* administrator tuple whose subject is that stored account's id.
C3_DoneImpliesStoredAdminGranted ==
    \A p \in Replicas :
        Done(p) => /\ AdminEmail \in DOMAIN repo
                   /\ repo[AdminEmail].Identity = AdminEmail
                   /\ repo[AdminEmail].ID \in policies

\* C4: the HTTP server's Start is invoked only in a process whose bootstrap
\* reached DONE; a process whose bootstrap ended in FATAL never starts the
\* server and exits with a non-zero exit code.
C4_StartOnlyAfterDone ==
    \A p \in Replicas :
        /\ started[p] => Done(p)
        /\ pc[p] \in {"start", "serving"} => Done(p)
        /\ Fatal(p) => ~started[p]
        /\ (Fatal(p) /\ pc[p] = "exited") => exitCode[p] # 0

\* C4 witness: a process exited with code 1 after AddPolicy reported that the
\* grant was not added, without starting the server, while another process
\* whose bootstrap reached DONE is serving.
C4_Witness ==
    \E p \in Replicas : \E q \in Replicas :
        /\ <<"AddPolicy", "notadded">> \in Outcomes(p)
        /\ pc[p] = "exited" /\ exitCode[p] = 1 /\ ~started[p]
        /\ Done(q) /\ started[q]

----------------------------------------------------------------------------
(* Properties of the provider                                              *)

Returned(o) == op = o /\ ppc = "returned"

\* The introspection call reported an introspection result.
Introspected == http.kind = "response" /\ http.status = 200 /\ http.body.shape = "introspection"

\* C5: Validate succeeds exactly when introspection reports active=true;
\* active=false and a non-success HTTP status both give the authentication
\* error, and a malformed body gives a decoding error.
C5_ValidateOutcomes ==
    Returned("Validate") =>
        /\ result.err = "nil" <=> (Introspected /\ http.body.active)
        /\ (Introspected /\ ~http.body.active) => result.err = "ErrAuthentication"
        /\ (http.kind = "response" /\ http.status # 200) => result.err = "ErrAuthentication"
        /\ (http.kind = "response" /\ http.status = 200 /\ http.body.shape = "notjson")
               => result.err = "ErrUnmarshalBody"

\* C6: for every failed introspection call decodeError returns an error (it
\* neither panics nor reports success), also without a response, without a
\* body, with a body that is not JSON, with JSON lacking the error object and
\* with an error object lacking the reason; an absent or non-matching body
\* gives a decoding error.
C6_DecodeErrorAlwaysReturnsError ==
    (Returned("Validate") /\ ~Introspected) =>
        /\ result.err \notin {"nil", "panic"}
        /\ ( /\ http.kind = "response"
             /\ \/ http.body.shape \in {"empty", "notjson"}
                \/ (http.body.shape = "json" /\ ~http.body.error) )
           => result.err = "ErrUnmarshalBody"

\* The exchange gave a token with a refresh token and the identity endpoint
\* answered 200 with a JSON body.
IdentityParsed ==
    /\ exch.err = "nil" /\ exch.token.RefreshToken # ""
    /\ http.kind = "response" /\ http.status = 200 /\ http.body.shape = "json"

\* C7: when the exchange succeeds with a refresh token and the identity
\* request answers a success status with a parseable body, UserDetails
\* succeeds exactly when sub, preferred_username and email are all non-empty
\* (returning the record built from them and the exchanged token), and
\* otherwise returns the authentication error with an empty record and an
\* empty token.
C7_UserDetailsIffAllFields ==
    (Returned("UserDetails") /\ IdentityParsed) =>
        LET all == /\ http.body.sub # ""
                   /\ http.body.preferred_username # ""
                   /\ http.body.email # ""
        IN /\ result.err = "nil" <=> all
           /\ all => /\ result.client.ID = http.body.sub
                     /\ result.client.Name = http.body.preferred_username
                     /\ result.client.Identity = http.body.email
                     /\ result.token = exch.token
           /\ ~all => /\ result.err = "ErrAuthentication"
                      /\ result.client = EmptyClient
                      /\ result.token = EmptyToken

\* C7 witness: UserDetails returned after an identity answer that has sub and
\* email but no preferred_username, with the authentication error.
C7_Witness ==
    /\ Returned("UserDetails") /\ IdentityParsed
    /\ http.body.sub # "" /\ http.body.email # "" /\ http.body.preferred_username = ""
    /\ result.err = "ErrAuthentication"

\* C8: when the exchange returns a token whose refresh token is empty,
\* UserDetails fails with the authentication error, whatever the access token.
C8_EmptyRefreshTokenRejected ==
    (op = "UserDetails" /\ exch.err = "nil" /\ exch.token.RefreshToken = "") =>
        /\ ppc = "returned"
        /\ result.err = "ErrAuthentication"
        /\ result.client = EmptyClient /\ result.token = EmptyToken

\* C8 witness: the exchange returned an access token without a refresh token
\* and UserDetails returned the authentication error.
C8_Witness ==
    /\ Returned("UserDetails")
    /\ exch.err = "nil" /\ exch.token.RefreshToken = "" /\ exch.token.AccessToken # ""
    /\ result.err = "ErrAuthentication"

\* C9: Refresh returns a token without error only after a success status and
\* with a non-empty access token; a non-success status gives the
\* authentication error and a body that does not decode a decoding error.
C9_RefreshOutcomes ==
    Returned("Refresh") =>
        /\ result.err = "nil" =>
               /\ http.kind = "response" /\ http.status = 200
               /\ result.token.AccessToken # ""
        /\ (http.kind = "response" /\ http.status # 200) => result.err = "ErrAuthentication"
        /\ (http.kind = "response" /\ http.status = 200 /\ http.body.shape = "notjson")
               => result.err = "ErrUnmarshal"

\* C10: an operation whose caller cancelled the context while one of its
\* requests was in flight aborts: it does not return success and does not go
\* on to consume the provider's complete answer.
C10_CancelAborts ==
    (ppc = "returned" /\ ctx = "cancelled") =>
        /\ result.err # "nil"
        /\ http.kind = "response" => http.body.shape = "empty"

\* C11: IsEnabled returns true exactly when both the client identifier and
\* the client secret given to NewProvider are non-empty, and no step changes
\* the provider's configuration once NewProvider has built it.
C11_IsEnabledIffBothSet ==
    /\ [](Returned("IsEnabled") =>
            (result.detail[1] <=> (oauthConfig.ClientID # "" /\ oauthConfig.ClientSecret # "")))
    /\ [][cfg.built => (cfg' = cfg /\ oauthConfig' = oauthConfig)]_vars

\* C11 witness: IsEnabled returned false for a provider that has a client
\* identifier but no client secret.
C11_Witness ==
    /\ Returned("IsEnabled")
    /\ cfg.ClientID # "" /\ cfg.ClientSecret = ""
    /\ result.detail = <<FALSE>>

----------------------------------------------------------------------------
(* Further properties of the admin bootstrap                               *)

HasCall(p, name) == \E i \in 1..Len(calls[p]) : calls[p][i][1] = name

\* The run's lookup reported that the administrator identity is not stored.
ObservedMiss(p) ==
    calls[p] # <<>> /\ calls[p][1] = <<"RetrieveByIdentity", "notfound">>

\* C12: the machine enters CREATE (Save, IssueToken) exactly when
\* RetrieveByIdentity reports not-found; a found record means no Save and no
\* IssueToken and its id is carried to the authorization check; a lookup
\* that failed otherwise does not lead to a creation.
C12_CreateOnlyOnNotFound ==
    \A p \in Replicas :
        /\ (HasCall(p, "Save") \/ pc[p] = "Save") <=> ObservedMiss(p)
        /\ HasCall(p, "IssueToken") => ObservedMiss(p)
        /\ (calls[p] # <<>> /\ calls[p][1][2] = "found" /\ pc[p] = "Authorize")
               => clientID[p] = repo[AdminEmail].ID

C14_MissAlwaysLeadsToSave ==
    \A p \in Replicas :
        ObservedMiss(p) =>
            \/ pc[p] = "Save" /\ Len(calls[p]) = 1
            \/ Len(calls[p]) > 1 /\ calls[p][2][1] = "Save"

\* C14 witness: two replicas both observed not-found and both called Save
\* for the administrator identity.
C14_Witness ==
    \E p \in Replicas : \E q \in Replicas :
        /\ p # q
        /\ ObservedMiss(p) /\ ObservedMiss(q)
        /\ HasCall(p, "Save") /\ HasCall(q, "Save")

\* The collaborator calls of a bootstrap run, in the order of the code.
BootCallOrder ==
    <<"RetrieveByIdentity", "Save", "IssueToken", "Authorize", "AddPolicy">>

CallRank(name) == CHOOSE i \in 1..Len(BootCallOrder) : BootCallOrder[i] = name

\* C15: nothing is retried: a bootstrap run invokes each of its five
\* collaborator calls at most once, in the order of the code, so it has ended
\* once five calls are made; a provider operation issues each of its outbound
\* requests at most once (UserDetails at most two, Validate and Refresh one).
C15_NoRetry ==
    /\ \A p \in Replicas :
          /\ \A i \in 1..Len(calls[p]) : \A j \in 1..Len(calls[p]) :
                i < j => CallRank(calls[p][i][1]) < CallRank(calls[p][j][1])
          /\ Len(calls[p]) <= Len(BootCallOrder)
          /\ Len(calls[p]) = Len(BootCallOrder) => Ended(p)
    /\ \A i \in 1..Len(reqs) : \A j \in 1..Len(reqs) : i # j => reqs[i] # reqs[j]
    /\ op = "UserDetails" => (Len(reqs) <= 2 /\ reqs[1] = "token")
    /\ op = "Validate" => reqs = <<"introspect">>
    /\ op = "Refresh" => Len(reqs) <= 1

\* C15 witness: a run in which the lookup failed, the account was created
\* and Authorize failed made its fifth call, a failing AddPolicy, and ended.
C15_Witness ==
    \E p \in Replicas :
        /\ Len(calls[p]) = 5
        /\ <<"RetrieveByIdentity", "error">> \in Outcomes(p)
        /\ <<"Authorize", "error">> \in Outcomes(p)
        /\ <<"AddPolicy", "error">> \in Outcomes(p)
        /\ Fatal(p)

\* The run saved the account and then failed to issue credentials.
SavedThenIssueFailed(p) ==
    <<"Save", "ok">> \in Outcomes(p) /\ <<"IssueToken", "error">> \in Outcomes(p)

\* C17: when Save succeeds and IssueToken fails, the run ends with that error
\* without Authorize or AddPolicy and without starting the server, the saved
\* account stays in the repository, and no later run observes not-found.
C17_IssueFailureLeavesAccount ==
    \A p \in Replicas :
        SavedThenIssueFailed(p) =>
            /\ Fatal(p) /\ bootErr[p] = "ErrIssueToken"
            /\ ~HasCall(p, "Authorize") /\ ~HasCall(p, "AddPolicy")
            /\ ~started[p]
            /\ RepoHas(AdminEmail)
            /\ \A q \in Replicas : p \in pred[q] => ~ObservedMiss(q)

\* C17 witness: after such a run, a later run found the account and reached
\* DONE although IssueToken has never succeeded in any run.
C17_Witness ==
    \E p \in Replicas : \E q \in Replicas :
        /\ SavedThenIssueFailed(p)
        /\ p \in pred[q]
        /\ calls[q] # <<>>
        /\ calls[q][1] = <<"RetrieveByIdentity", "found">>
        /\ Done(q)
        /\ \A r \in Replicas : <<"IssueToken", "ok">> \notin Outcomes(r)

----------------------------------------------------------------------------
(* Further properties of the provider                                      *)

\* The fields the form body of a refresh is meant to carry for the token in arg.
RefreshFields ==
    { << <<"grant_type">>, <<"refresh_token">> >>,
      << <<"refresh_token">>, arg >>,
      << <<"scope">>, Join(scopes, <<" ">>) >> }

\* C16: for every refresh-token string the form body sent by Refresh parses
\* to exactly three fields: grant_type = refresh_token, refresh_token = the
\* given string, scope = the fixed scope set joined by spaces.
C16_RefreshBodyFields ==
    op = "Refresh" =>
        LET form == ParseQuery(payload)
        IN /\ Len(form) = 3
           /\ {form[i] : i \in 1..Len(form)} = RefreshFields

\* C18: UserDetails requests the identity endpoint only after the exchange
\* succeeded with a non-empty refresh token; a failed exchange or an empty
\* refresh token ends the operation with the token request alone; and every
\* failure returns an empty record and an empty token.
C18_IdentityOnlyAfterExchange ==
    op = "UserDetails" =>
        /\ (\E i \in 1..Len(reqs) : reqs[i] = "userinfo") =>
               /\ exch.err = "nil" /\ exch.token.RefreshToken # ""
               /\ reqs = <<"token", "userinfo">>
        /\ (exch.err \notin {"nil", "pending"} \/ (exch.err = "nil" /\ exch.token.RefreshToken = "")) =>
               /\ reqs = <<"token">>
               /\ ppc = "returned" /\ result.err # "nil"
        /\ (ppc = "returned" /\ result.err # "nil") =>
               /\ result.client = EmptyClient
               /\ result.token = EmptyToken

\* C18 witness: the exchange gave an access and a refresh token, the identity
\* endpoint refused the request, and UserDetails returned the error with an
\* empty token.
C18_Witness ==
    /\ Returned("UserDetails")
    /\ reqs = <<"token", "userinfo">>
    /\ exch.token.AccessToken # "" /\ exch.token.RefreshToken # ""
    /\ http.kind = "response" /\ http.status = 401
    /\ result.err = "ErrAuthentication" /\ result.token = EmptyToken

====
